---- MODULE Spec2Model ----
(***************************************************************************)
(* Scenario execution engine of kube-agents-test: engine.Engine.Run with   *)
(* its convergence poller, the agent.PodManager it deploys and stops       *)
(* agents through, and the diagnostics collector it calls on failure.      *)
(*                                                                         *)
(* Durations are not fixed: a collaborator call may take any time, so the  *)
(* deadline of Run's context may pass, and the poller's ticker may tick,   *)
(* between any two steps once time has passed.  A client call made under   *)
(* a context that is already done may be refused by the client or may      *)
(* still be carried out (a client that ignores the context): both          *)
(* outcomes are modelled.                                                  *)
(***************************************************************************)
EXTENDS Integers, Sequences, FiniteSets, TLC

\* ------------------------------------------------------------- bounds
MaxAgents == 2          \* longest agent list of a scenario
MaxManifests == 1       \* longest setup.manifests list
MaxExpect == 2          \* longest expectation list
UserTimeout == 90       \* a non-zero scenario timeout, in seconds
DefaultTimeout == 120   \* 2 * time.Minute, in seconds

\* Agent names a scenario may list; the manager has a config for some only.
AgentNames == {"a", "b", "x"}
\* PodManager.Agents: the names NewPodManager was given a config for.
Agents == {"a", "b"}

SeqsUpTo(S, n) == UNION {[1..k -> S] : k \in 0..n}

\* The agent lists of loaded scenarios (the loader rejects an empty list),
\* up to the renaming of configured agents: "b" is listed only after "a".
AgentLists ==
    {l \in SeqsUpTo(AgentNames, MaxAgents) :
        /\ l # <<>>
        /\ \A k \in DOMAIN l : l[k] = "b" => \E j \in 1..(k - 1) : l[j] = "a"}

\* scenario.Scenario as Run reads it: the agent list, the number of setup
\* manifests, the trigger ("none": Trigger == nil, "empty": Trigger without
\* a Patch, "patch"), the number of expectations (expectation k is about
\* resource k) and the timeout (0: unset).
Scenarios ==
    [Agents : AgentLists,
     Manifests : 0..MaxManifests,
     Trigger : {"none", "empty", "patch"},
     Expect : 0..MaxExpect,
     Timeout : {0, UserTimeout}]

\* ------------------------------------------------------------- values
NoDetail == [exp |-> 0, why |-> "none"]
\* Result.Error == nil
NilError == [msg |-> "nil", ctxErr |-> FALSE, detail |-> NoDetail]
\* Result.Diagnostics == nil
NilReport == [nil |-> TRUE, AgentLogs |-> [n \in {} |-> "logs"], Events |-> FALSE,
              ResourceDiffs |-> <<>>, CollectionError |-> ""]

\* fmt.Errorf(msg + ": %w", err): ctxErr tells whether the wrapped error is
\* the context's error.
Err(msg, ctxErr, detail) == [msg |-> msg, ctxErr |-> ctxErr, detail |-> detail]

VARIABLES
    scn,          \* the scenario handed to Run
    engine,       \* Engine fields: clients (dynamicClient and mapper set), Collector (non-nil)
    pc,           \* position of Run
    i,            \* loop index of the stage Run is in
    result,       \* the Result under construction / returned
    ctx,          \* the context Run works under: "none" not derived yet, "full" derived
                  \* and no time has passed since, "running" time has passed,
                  \* "deadline" / "canceled" done, with that ctx.Err()
    timeout,      \* the timeout Run gave to context.WithTimeout
    ticker,       \* the poller's ticker: "off", "on", or "tick" (a tick is buffered in ticker.C)
    lastErr,      \* waitForExpectations' lastErr
    store,        \* Resource Store: state of each expected resource
    deployed,     \* PodManager.deployed
    deployments,  \* the agents' Deployments that exist in the cluster
    names,        \* StopAll's snapshot of names still to stop
    calls,        \* history: the collaborator calls Run has made
    everAllHeld,  \* history: at some instant of the wait all expectations held
    metInTime,    \* history: all expectations hold, continuously since before the deadline
    doneInPoll,   \* history: the context was done while Run was in the poller
    checked,      \* history: the detail the most recent unmet check produced
    immediate,    \* history: all expectations held when polling began, and the store and
                  \* the context were left alone during the first check
    ticked,       \* history: the poller has consumed a tick
    failedAt,     \* history: the position of Run when it recorded result.Error
    stopErr,      \* history: what the last StopAll returned: "none", "nil" or "err"
    applied,      \* applyManifest on its own: the cluster's objects, the manifest, and
                  \* what each application of the manifest returned and left behind
    looked,       \* lookupPath on its own: the document, the path, and what it returned
    compared,     \* valuesEqual on its own: the two values, and what it returned
    loaded,       \* the scenario loaders on their own: the entry point called, the
                  \* files it was given, and what it returned
    waits,        \* the timeout of the convergence wait in each Engine of the
                  \* repository: the Engine, the scenario's timeout, the timeout used
    manager,      \* a PodManager called by a test instead of by Run: the last call,
                  \* its error, and the manager's state before it
    racing,       \* applyUnstructured step by step next to a running agent: the
                  \* cluster's objects, the document, the position, what Get saw
    conditioned,  \* one condition of checkExpectation on its own: the fetched document,
                  \* the condition, and what checkExpectation makes of it
    checking,     \* checkAllExpectations step by step next to a running agent: the
                  \* expectations, the cluster's documents, the position, the fetched
                  \* object and the detail returned
    ensuring,     \* ensureClients of concurrent runs on one Engine: the Engine's client
                  \* fields, the clients constructed, each run's position and the
                  \* clients it has used
    shared        \* goroutines that call one PodManager concurrently: for each, what it
                  \* runs (a Run, a StopAll, a Stop), its position, the agents it
                  \* deployed and what its call returned

\* The variables of Run, of the manager and of the collector.
engineVars == <<scn, engine, pc, i, result, ctx, timeout, ticker, lastErr, store,
                deployed, deployments, names, calls, everAllHeld, metInTime, doneInPoll,
                checked, immediate, ticked, failedAt, stopErr>>

\* The variables of the functions that are exercised on their own.
unitVars == <<applied, looked, compared, loaded, waits, manager, racing, conditioned, checking, ensuring, shared>>

vars == <<engineVars, unitVars>>

\* ------------------------------------------------------------- helpers
CtxDoneIn_Never(c) == FALSE

\* ctx.Done() is closed: cancelled by the caller or past the deadline.
CtxDoneIn(c) == c \in {"deadline", "canceled"}
CtxDone == CtxDoneIn(ctx)

\* Outcomes of a client call made with ctx: TRUE the call is carried out,
\* FALSE the client returns the context's error.
CtxCall == IF CtxDone THEN {TRUE, FALSE} ELSE {TRUE}

PollPcs == {"poll", "check", "wait"}

\* Run is inside waitForExpectations with a check or a select still to make.
InPoller(p, k, n) == p \in {"poll", "wait"} \/ (p = "check" /\ k <= n)

AllMetIn(st) == \A k \in DOMAIN st : st[k] = "met"

\* The history variables, as every step updates them; c is the detail of
\* the most recent unmet check after the step.
TrackAll(c) ==
    /\ UNCHANGED unitVars
    /\ checked' = c
    /\ ticked' = (ticked \/ (pc = "wait" /\ pc' = "check"))
    /\ immediate' = (IF pc = "poll" /\ pc' # "poll"
                      THEN AllMetIn(store') /\ ~CtxDoneIn(ctx')
                      ELSE IF pc = "check" /\ ~ticked
                      THEN immediate /\ store' = store /\ ~CtxDoneIn(ctx')
                      ELSE immediate)
    /\ failedAt' = (IF result'.Error # result.Error THEN pc ELSE failedAt)
    /\ stopErr' = (IF pc = "stopall" /\ pc' = "stopping" THEN "none"
                    ELSE IF pc = "stopping" /\ pc' = "done"
                    THEN (IF names = {} THEN "nil" ELSE "err")
                    ELSE stopErr)
    /\ everAllHeld' = (everAllHeld \/ (pc' \in PollPcs /\ AllMetIn(store')))
    /\ doneInPoll' = (doneInPoll \/ (/\ InPoller(pc', i', scn'.Expect)
                                      /\ CtxDoneIn(ctx')))
    /\ metInTime' = (/\ pc' \in PollPcs \cup {"diag", "stopall", "stopping", "done"}
                     /\ AllMetIn(store')
                     /\ IF pc \in PollPcs \cup {"diag", "stopall", "stopping", "done"}
                           /\ AllMetIn(store)
                        THEN metInTime
                        ELSE pc' \in PollPcs /\ ~CtxDoneIn(ctx'))

\* A step that makes no unmet check.
Track == TrackAll(checked)

\* What a collection found failing: getClient, the log fetch of some agents,
\* the event listing.
NoFailure == [client |-> FALSE, logs |-> {}, events |-> FALSE]

\* deploy: the Deploy calls made, in order, each with its agent name and
\* whether it succeeded; apply: the manifest indexes handed to applyManifest,
\* in order; patch, collect: numbers of calls; fetch: a resource was fetched;
\* failed: what failed inside the Collect call.
NoCalls == [deploy |-> <<>>, apply |-> <<>>, patch |-> 0, fetch |-> FALSE, collect |-> 0,
            failed |-> NoFailure]

AppliedOff == applied = [phase |-> "off"]
LookedOff == looked = [phase |-> "off"]
ComparedOff == compared = [phase |-> "off"]
LoadedOff == loaded = [phase |-> "off"]
WaitsOff == waits = [phase |-> "off"]
ManagerOff == manager = [phase |-> "off"]
RacingOff == racing = [phase |-> "off"]
ConditionedOff == conditioned = [phase |-> "off"]
CheckingOff == checking = [phase |-> "off"]
EnsuringOff == ensuring = [phase |-> "off"]
SharedOff == shared = [phase |-> "off"]

\* No function is being exercised on its own, but for the one named.
UnitsOffBut(unit) ==
    /\ IF unit = "applied" THEN TRUE ELSE AppliedOff
    /\ IF unit = "looked" THEN TRUE ELSE LookedOff
    /\ IF unit = "compared" THEN TRUE ELSE ComparedOff
    /\ IF unit = "loaded" THEN TRUE ELSE LoadedOff
    /\ IF unit = "waits" THEN TRUE ELSE WaitsOff
    /\ IF unit = "manager" THEN TRUE ELSE ManagerOff
    /\ IF unit = "racing" THEN TRUE ELSE RacingOff
    /\ IF unit = "conditioned" THEN TRUE ELSE ConditionedOff
    /\ IF unit = "checking" THEN TRUE ELSE CheckingOff
    /\ IF unit = "ensuring" THEN TRUE ELSE EnsuringOff
    /\ IF unit = "shared" THEN TRUE ELSE SharedOff

UnitsOff == UnitsOffBut("none")

\* An Engine, its manager and a scenario, before Run is called.
EngineInit ==
    /\ scn \in Scenarios
    /\ engine \in [clients : BOOLEAN, Collector : BOOLEAN]
    /\ pc = "idle"
    /\ i = 0
    /\ result = [Passed |-> FALSE, Error |-> NilError, Diagnostics |-> NilReport]
    /\ ctx = "none"
    /\ timeout = 0
    /\ ticker = "off"
    /\ lastErr = NoDetail
    /\ store = [k \in 1..scn.Expect |-> "missing"]
    /\ deployed = {}
    /\ deployments = {}
    /\ names = {}
    /\ calls = NoCalls
    /\ everAllHeld = FALSE
    /\ metInTime = FALSE
    /\ doneInPoll = FALSE
    /\ checked = NoDetail
    /\ immediate = FALSE
    /\ ticked = FALSE
    /\ failedAt = "none"
    /\ stopErr = "none"

Init == EngineInit /\ UnitsOff

\* An Engine that is not run: the functions below are exercised on their own.
EngineOff ==
    /\ EngineInit
    /\ scn = [Agents |-> <<"a">>, Manifests |-> 0, Trigger |-> "none",
              Expect |-> 0, Timeout |-> 0]
    /\ engine = [clients |-> TRUE, Collector |-> TRUE]

\* ------------------------------------------------------------- Engine.Run
\* timeout := s.Timeout.Duration; if timeout == 0 { timeout = 2 * time.Minute }
RunTimeout(s) == IF s.Timeout = 0 THEN DefaultTimeout ELSE s.Timeout

\* Run, up to the context it derives: start, result, context.WithTimeout.
Run_Start ==
    /\ pc = "idle"
    /\ pc' = "ensure"
    /\ result' = [Passed |-> FALSE, Error |-> NilError, Diagnostics |-> NilReport]
    /\ timeout' = RunTimeout(scn)
    /\ ctx' = (IF ctx = "canceled" THEN "canceled" ELSE "full")
    /\ UNCHANGED <<scn, engine, i, ticker, lastErr, store, deployed, deployments,
                   names, calls>>
    /\ Track

\* ensureClients and Run's handling of its error.
EnsureClients ==
    /\ pc = "ensure"
    /\ \/ /\ engine.clients
          /\ pc' = "deploy" /\ i' = 1
          /\ UNCHANGED <<engine, result>>
       \/ /\ ~engine.clients
          /\ \E ok \in BOOLEAN :
               IF ok
               THEN /\ engine' = [engine EXCEPT !.clients = TRUE]
                    /\ pc' = "deploy" /\ i' = 1
                    /\ UNCHANGED result
               ELSE /\ result' = [result EXCEPT !.Error = Err("initializing clients", FALSE, NoDetail)]
                    /\ pc' = "done"
                    /\ UNCHANGED <<engine, i>>
    /\ UNCHANGED <<scn, ctx, timeout, ticker, lastErr,
                   store, deployed, deployments, names, calls>>
    /\ Track

PodDeploy_Any(name) ==
    (IF FALSE \in CtxCall THEN {"ctx"} ELSE {})
    \cup (IF name \in deployments THEN {"exists"} ELSE {"ok"})

\* PodManager.Deploy(ctx, name): "unknown" no config for the name, "ctx" the
\* client returns the context's error, "exists" Deployments.Create finds a
\* Deployment of that name, "ok" the Deployment is created.
PodDeploy(name) ==
    IF name \notin Agents THEN {"unknown"}
    ELSE (IF FALSE \in CtxCall THEN {"ctx"} ELSE {})
         \cup (IF name \in deployments THEN {"exists"} ELSE {"ok"})

\* The agent the deployment loop handles in its k-th iteration.
AgentAt(k) == scn.Agents[k]

DeployFailed_Continue(o) ==
    /\ result' = [result EXCEPT !.Error = Err("deploying agent", o = "ctx", NoDetail)]
    /\ i' = i + 1
    /\ UNCHANGED <<pc, deployed, deployments>>

\* Deploy returned an error: Run records it and returns.
DeployFailed(o) ==
    /\ result' = [result EXCEPT !.Error = Err("deploying agent", o = "ctx", NoDetail)]
    /\ pc' = "done"
    /\ UNCHANGED <<i, deployed, deployments>>

\* One iteration of "for _, name := range s.Agents".
Deploy ==
    /\ pc = "deploy"
    /\ i <= Len(scn.Agents)
    /\ \E o \in PodDeploy(AgentAt(i)) :
         /\ calls' = [calls EXCEPT !.deploy = Append(@, [name |-> AgentAt(i), ok |-> o = "ok"])]
         /\ IF o = "ok"
            THEN /\ deployed' = deployed \cup {AgentAt(i)}
                 /\ deployments' = deployments \cup {AgentAt(i)}
                 /\ i' = i + 1
                 /\ UNCHANGED <<pc, result>>
            ELSE DeployFailed(o)
    /\ UNCHANGED <<scn, engine, ctx, timeout, ticker,
                   lastErr, store, names>>
    /\ Track

\* The loop is over: defer e.AgentManager.StopAll(ctx), then applySetup.
DeployDone ==
    /\ pc = "deploy"
    /\ i > Len(scn.Agents)
    /\ pc' = "setup" /\ i' = 1
    /\ UNCHANGED <<scn, engine, result, ctx, timeout, ticker, lastErr, store, deployed, deployments, names, calls>>
    /\ Track

\* What a successful create-or-update of a manifest's resources can make of
\* the expected resources: each is left alone or exists afterwards.
Applied(st) ==
    {t \in [DOMAIN st -> {"missing", "unmet", "met"}] :
        \A k \in DOMAIN st : t[k] = st[k] \/ t[k] # "missing"}

SetupFailed_Continue(ctxErr) ==
    /\ result' = [result EXCEPT !.Error = Err("applying setup", ctxErr, NoDetail)]
    /\ pc' = "trigger"

\* applySetup returned an error: Run records it and returns (StopAll is deferred).
SetupFailed(ctxErr) ==
    /\ result' = [result EXCEPT !.Error = Err("applying setup", ctxErr, NoDetail)]
    /\ pc' = "stopall"

\* One iteration of applySetup: applyManifest(ctx, manifest).  It fails on an
\* unreadable or undecodable file, on an API error, or on the context's error.
ApplyManifest ==
    /\ pc = "setup"
    /\ i <= scn.Manifests
    /\ calls' = [calls EXCEPT !.apply = Append(@, i)]
    /\ \/ \E t \in Applied(store) :
            /\ TRUE \in CtxCall
            /\ store' = t
            /\ i' = i + 1
            /\ UNCHANGED <<pc, result>>
       \/ \E ctxErr \in {FALSE} \cup {~c : c \in CtxCall} :
            /\ SetupFailed(ctxErr)
            /\ UNCHANGED <<i, store>>
    /\ UNCHANGED <<scn, engine, ctx, timeout, ticker,
                   lastErr, deployed, deployments, names>>
    /\ Track

\* applySetup returned nil.
SetupDone ==
    /\ pc = "setup"
    /\ i > scn.Manifests
    /\ pc' = "trigger"
    /\ UNCHANGED <<scn, engine, i, result, ctx, timeout, ticker, lastErr, store, deployed, deployments, names, calls>>
    /\ Track

\* What a successful merge patch of the trigger's target can make of the
\* expected resources: the target is none of them, or one that exists.
Patched(st) ==
    {st} \cup {[st EXCEPT ![k] = v] : k \in {j \in DOMAIN st : st[j] # "missing"},
                                     v \in {"unmet", "met"}}

ApplyTrigger_Always ==
    /\ pc = "trigger"
    /\ calls' = [calls EXCEPT !.patch = @ + 1]
    /\ \/ \E t \in Patched(store) :
            /\ TRUE \in CtxCall
            /\ store' = t
            /\ pc' = "poll"
            /\ UNCHANGED result
       \/ \E ctxErr \in {FALSE} \cup {~c : c \in CtxCall} :
            /\ result' = [result EXCEPT !.Error = Err("applying trigger", ctxErr, NoDetail)]
            /\ pc' = "stopall"
            /\ UNCHANGED store
    /\ UNCHANGED <<scn, engine, i, ctx, timeout, ticker,
                   lastErr, deployed, deployments, names>>
    /\ Track

\* "3. Fire trigger": no call without a patch; applyPatch fails on a missing
\* mapping or target, on an API error, or on the context's error.
ApplyTrigger ==
    /\ pc = "trigger"
    /\ \/ /\ scn.Trigger # "patch"
          /\ pc' = "poll"
          /\ UNCHANGED <<result, store, calls>>
       \/ /\ scn.Trigger = "patch"
          /\ calls' = [calls EXCEPT !.patch = @ + 1]
          /\ \/ \E t \in Patched(store) :
                  /\ TRUE \in CtxCall
                  /\ store' = t
                  /\ pc' = "poll"
                  /\ UNCHANGED result
             \/ \E ctxErr \in {FALSE} \cup {~c : c \in CtxCall} :
                  /\ result' = [result EXCEPT !.Error = Err("applying trigger", ctxErr, NoDetail)]
                  /\ pc' = "stopall"
                  /\ UNCHANGED store
    /\ UNCHANGED <<scn, engine, i, ctx, timeout, ticker,
                   lastErr, deployed, deployments, names>>
    /\ Track

\* ------------------------------------------------------------- the poller
\* waitForExpectations returned nil: result.Passed = true, and Run returns.
Passes ==
    /\ result' = [result EXCEPT !.Passed = TRUE]
    /\ pc' = "stopall"

WaitStart_NoCheck ==
    /\ pc = "poll"
    /\ ticker' = "on"
    /\ pc' = "wait" /\ i' = 1
    /\ UNCHANGED <<scn, engine, result, ctx, timeout, lastErr, store,
                   deployed, deployments, names, calls>>
    /\ Track

\* waitForExpectations: the ticker is created and the immediate check begins.
WaitStart ==
    /\ pc = "poll"
    /\ ticker' = "on"
    /\ pc' = "check" /\ i' = 1
    /\ UNCHANGED <<scn, engine, result, ctx, timeout, lastErr, store,
                   deployed, deployments, names, calls>>
    /\ Track

\* resource.Get(ctx, ref.Name) of expectation k, then its conditions against
\* the fetched object: "get" the fetch failed (no such resource, or the
\* context's error), "cond" a condition is not found or unequal, "met".
CheckExpectation(k) ==
    (IF FALSE \in CtxCall \/ store[k] = "missing" THEN {"get"} ELSE {})
    \cup (IF store[k] = "missing" THEN {}
          ELSE IF store[k] = "met" THEN {"met"} ELSE {"cond"})

Retain_First(old, new) == IF old = NoDetail THEN new ELSE old

\* "allMet, lastErr = e.checkAllExpectations(...)": the detail of the check
\* just made replaces the one waitForExpectations held.
Retain(old, new) == new

Unmet_Fatal(o) ==
    /\ lastErr' = Retain(lastErr, [exp |-> i, why |-> o])
    /\ IF o = "get"
       THEN /\ result' = [result EXCEPT !.Error = Err("getting resource", FALSE, lastErr')]
            /\ pc' = "diag"
            /\ ticker' = "off"
       ELSE /\ pc' = "wait"
            /\ UNCHANGED <<result, ticker>>
    /\ UNCHANGED i

\* An expectation is unmet, for whatever reason o: checkAllExpectations
\* returns false with the detail, and waitForExpectations goes on to select.
Unmet(o) ==
    /\ lastErr' = Retain(lastErr, [exp |-> i, why |-> o])
    /\ pc' = "wait"
    /\ UNCHANGED <<i, result, ticker>>

\* One iteration of checkAllExpectations; an unmet expectation ends the
\* check with its detail, which waitForExpectations keeps in lastErr.
CheckStep ==
    /\ pc = "check"
    /\ i <= scn.Expect
    /\ calls' = [calls EXCEPT !.fetch = TRUE]
    /\ UNCHANGED <<scn, engine, ctx, timeout, store, deployed, deployments, names>>
    /\ \E o \in CheckExpectation(i) :
         IF o = "met"
         THEN /\ i' = i + 1
              /\ UNCHANGED <<pc, lastErr, result, ticker>>
              /\ Track
         ELSE /\ Unmet(o)
              /\ TrackAll([exp |-> i, why |-> o])

CheckDone_Tick ==
    /\ pc = "check"
    /\ i > scn.Expect
    /\ IF scn.Expect = 0
       THEN pc' = "wait" /\ UNCHANGED <<result, ticker>>
       ELSE Passes /\ ticker' = "off"
    /\ UNCHANGED <<scn, engine, i, ctx, timeout, lastErr, store,
                   deployed, deployments, names, calls>>
    /\ Track

\* checkAllExpectations returned true: waitForExpectations returns nil.
CheckDone ==
    /\ pc = "check"
    /\ i > scn.Expect
    /\ Passes
    /\ ticker' = "off"
    /\ UNCHANGED <<scn, engine, i, ctx, timeout, lastErr, store,
                   deployed, deployments, names, calls>>
    /\ Track

\* select { case <-ticker.C: ... }: a buffered tick starts the next check.
SelectTick ==
    /\ pc = "wait"
    /\ ticker = "tick"
    /\ ticker' = "on"
    /\ pc' = "check" /\ i' = 1
    /\ UNCHANGED <<scn, engine, result, ctx, timeout, lastErr, store, deployed, deployments, names, calls>>
    /\ Track

TimedOut_StopFirst ==
    /\ result' = [result EXCEPT !.Error =
                     Err("timed out waiting for expectations", TRUE, lastErr)]
    /\ pc' = "stopall"

TimedOut_NoError ==
    /\ result' = result
    /\ pc' = "diag"

\* The error waitForExpectations returns on ctx.Done(), as Run records it.
TimedOut ==
    /\ result' = [result EXCEPT !.Error =
                     Err("timed out waiting for expectations", TRUE, lastErr)]
    /\ pc' = "diag"

\* select { case <-ctx.Done(): ... }: the wait ends with the timeout error.
SelectDone ==
    /\ pc = "wait"
    /\ CtxDone
    /\ TimedOut
    /\ ticker' = "off"
    /\ UNCHANGED <<scn, engine, i, ctx, timeout, lastErr, store,
                   deployed, deployments, names, calls>>
    /\ Track

\* ------------------------------------------------------------- diagnostics
\* ClusterCollector.Collect: "client" getClient fails and Collect returns an
\* error; otherwise a report with an entry per agent name, and either the
\* events or, when listing them fails, CollectionError.
\* Every agent name of the scope has its logs fetched (collectAgentLogs)
\* or, when listing its pods fails, the placeholder; failed tells what failed.
Collect_Abort ==
    {[kind |-> "client", failed |-> [NoFailure EXCEPT !.client = TRUE], report |-> NilReport]}
    \cup {[kind |-> "report",
           failed |-> [client |-> FALSE, logs |-> bad, events |-> ~ev],
           report |-> [nil |-> FALSE,
                       AgentLogs |-> [n \in (IF bad = {} THEN {scn.Agents[k] : k \in DOMAIN scn.Agents}
                                                         ELSE {}) |-> "logs"],
                       Events |-> ev /\ bad = {}, ResourceDiffs |-> <<>>,
                       CollectionError |-> IF ev THEN "" ELSE "listing events"]] :
          bad \in SUBSET {scn.Agents[k] : k \in DOMAIN scn.Agents}, ev \in BOOLEAN}

Collect ==
    {[kind |-> "client", failed |-> [NoFailure EXCEPT !.client = TRUE], report |-> NilReport]}
    \cup {[kind |-> "report",
           failed |-> [client |-> FALSE, logs |-> bad, events |-> ~ev],
           report |-> [nil |-> FALSE,
                       AgentLogs |-> [n \in {scn.Agents[k] : k \in DOMAIN scn.Agents} |->
                                         IF n \in bad THEN "error collecting logs" ELSE "logs"],
                       Events |-> ev, ResourceDiffs |-> <<>>,
                       CollectionError |-> IF ev THEN "" ELSE "listing events"]] :
          bad \in SUBSET {scn.Agents[k] : k \in DOMAIN scn.Agents}, ev \in BOOLEAN}

Collected_Nil(c) == IF c.kind = "client" THEN NilReport ELSE c.report

\* The report collectDiagnostics returns for the outcome c of Collect: an
\* error of Collect becomes a report that holds only CollectionError.
Collected(c) ==
    IF c.kind = "client"
    THEN [NilReport EXCEPT !.nil = FALSE, !.CollectionError = "collect"]
    ELSE c.report

\* collectDiagnostics, and Run storing its value in result.Diagnostics.
CollectDiagnostics ==
    /\ pc = "diag"
    /\ \/ /\ ~engine.Collector
          /\ UNCHANGED <<result, calls>>
       \/ /\ engine.Collector
          /\ \E c \in Collect :
               /\ calls' = [calls EXCEPT !.collect = @ + 1, !.failed = c.failed]
               /\ result' = [result EXCEPT !.Diagnostics = Collected(c)]
    /\ pc' = "stopall"
    /\ UNCHANGED <<scn, engine, i, ctx, timeout, ticker,
                   lastErr, store, deployed, deployments, names>>
    /\ Track

\* ------------------------------------------------------------- cleanup
\* The deferred StopAll(ctx): the names are copied under the lock.
StopAll_Begin ==
    /\ pc = "stopall"
    /\ names' = deployed
    /\ pc' = "stopping"
    /\ UNCHANGED <<scn, engine, i, result, ctx, timeout, ticker, lastErr, store, deployed, deployments, calls>>
    /\ Track

\* PodManager.Stop(ctx, name): "notdeployed" the name is not recorded,
\* "ctx" the client returns the context's error, "gone" Deployments.Delete
\* finds no such Deployment, "ok" the Deployment is deleted.
PodStop(name) ==
    IF name \notin deployed THEN {"notdeployed"}
    ELSE (IF FALSE \in CtxCall THEN {"ctx"} ELSE {})
         \cup (IF name \in deployments THEN {"ok"} ELSE {"gone"})

\* One iteration of StopAll's loop, in the map's iteration order; the first
\* error ends StopAll, and Run drops the error and returns.
StopAll_Stop ==
    /\ pc = "stopping"
    /\ \E n \in names : \E o \in PodStop(n) :
         IF o = "ok"
         THEN /\ deployments' = deployments \ {n}
              /\ deployed' = deployed \ {n}
              /\ names' = names \ {n}
              /\ UNCHANGED pc
         ELSE /\ pc' = "done"
              /\ names' = {}
              /\ UNCHANGED <<deployed, deployments>>
    /\ UNCHANGED <<scn, engine, i, result, ctx, timeout, ticker, lastErr, store, calls>>
    /\ Track

\* StopAll returned nil; the deferred cancel runs and Run returns result.
StopAll_Return ==
    /\ pc = "stopping"
    /\ names = {}
    /\ pc' = "done"
    /\ UNCHANGED <<scn, engine, i, result, ctx, timeout, ticker, lastErr, store, deployed, deployments, names, calls>>
    /\ Track

\* ------------------------------------------------------------- environment
Running == pc \notin {"idle", "done"}

\* Time passes for the first time since Run derived its context.
TimePasses ==
    /\ Running
    /\ ctx = "full"
    /\ ctx' = "running"
    /\ UNCHANGED <<scn, engine, pc, i, result, timeout, ticker, lastErr, store,
                   deployed, deployments, names, calls>>
    /\ Track

\* The ticker's interval has elapsed: a tick is buffered (ticker.C holds one
\* tick; further ticks are dropped while it is full).
TickFires ==
    /\ ticker = "on"
    /\ ticker' = "tick"
    /\ ctx' = (IF ctx = "full" THEN "running" ELSE ctx)
    /\ UNCHANGED <<scn, engine, pc, i, result, timeout, lastErr, store, deployed,
                   deployments, names, calls>>
    /\ Track

\* The deadline of context.WithTimeout(ctx, timeout) passes.
DeadlineFires ==
    /\ Running
    /\ ctx = "running"
    /\ ctx' = "deadline"
    /\ UNCHANGED <<scn, engine, pc, i, result, timeout, ticker, lastErr, store,
                   deployed, deployments, names, calls>>
    /\ Track

\* The caller cancels the context it gave to Run.
Cancel ==
    /\ pc # "done"
    /\ ~CtxDone
    /\ ctx' = "canceled"
    /\ UNCHANGED <<scn, engine, pc, i, result, timeout, ticker, lastErr, store,
                   deployed, deployments, names, calls>>
    /\ Track

\* A deployed agent (or any other client of the cluster) writes or deletes
\* one of the expected resources.
StoreChange ==
    /\ pc \in PollPcs
    /\ \E k \in DOMAIN store : \E v \in {"missing", "unmet", "met"} :
         /\ v # store[k]
         /\ store' = [store EXCEPT ![k] = v]
    /\ UNCHANGED <<scn, engine, pc, i, result, ctx, timeout, ticker, lastErr, deployed, deployments, names, calls>>
    /\ Track

Next ==
    \/ Run_Start
    \/ EnsureClients
    \/ Deploy
    \/ DeployDone
    \/ ApplyManifest
    \/ SetupDone
    \/ ApplyTrigger
    \/ WaitStart
    \/ CheckStep
    \/ CheckDone
    \/ SelectTick
    \/ SelectDone
    \/ CollectDiagnostics
    \/ StopAll_Begin
    \/ StopAll_Stop
    \/ StopAll_Return
    \/ TimePasses
    \/ TickFires
    \/ DeadlineFires
    \/ Cancel
    \/ StoreChange

Spec == Init /\ [][Next]_vars

\* The steps of Run's goroutine other than the select of the poller: each
\* is taken once Run is at it (every collaborator call returns).
RunStep ==
    \/ EnsureClients
    \/ Deploy
    \/ DeployDone
    \/ ApplyManifest
    \/ SetupDone
    \/ ApplyTrigger
    \/ WaitStart
    \/ CheckStep
    \/ CheckDone
    \/ CollectDiagnostics
    \/ StopAll_Begin
    \/ StopAll_Stop
    \/ StopAll_Return

\* The scenarios that leave the timeout unset: Run gives them the default,
\* and the length of the timeout changes no step of Run.
LiveInit == Init /\ scn.Timeout = 0

\* Run under its scheduling: its steps are taken, time passes and the timer
\* of context.WithTimeout fires, and a select that finds ctx.Done() ready
\* again and again takes that case at last (select chooses at random among
\* the ready cases).
LiveSpec ==
    /\ LiveInit /\ [][Next]_vars
    /\ WF_vars(RunStep)
    /\ WF_vars(TimePasses)
    /\ WF_vars(DeadlineFires)
    /\ SF_vars(SelectDone)

\* ------------------------------------------------------------- applyManifest
MaxDocs == 2            \* most documents in a manifest file
MaxVersion == 6         \* highest resourceVersion the cluster hands out

ObjectNames == {"r1", "r2"}
Contents == {"v1", "v2"}

\* An object of the cluster: absent, or its content with its resourceVersion.
Absent == [content |-> "absent", rv |-> 0]
Objects == {Absent} \cup [content : Contents, rv : {1}]

\* The documents of a manifest file, each with the name and the content of
\* a resource.
Manifests == SeqsUpTo([name : ObjectNames, content : Contents], MaxDocs)

\* resource.Update(ctx, obj): the object is replaced when obj carries the
\* resourceVersion the cluster holds, and the call fails on a conflict.
Update(objs, name, content, rv) ==
    IF objs[name] # Absent /\ objs[name].rv = rv /\ rv < MaxVersion
    THEN [objs |-> [objs EXCEPT ![name] = [content |-> content, rv |-> rv + 1]],
          err |-> FALSE]
    ELSE [objs |-> objs, err |-> TRUE]

applyUnstructured_CreateOnly(objs, d) ==
    IF objs[d.name] = Absent
    THEN [objs |-> [objs EXCEPT ![d.name] = [content |-> d.content, rv |-> 1]],
          err |-> FALSE]
    ELSE [objs |-> objs, err |-> TRUE]

\* applyUnstructured: Create; on AlreadyExists, Get the existing object, take
\* its resourceVersion and Update.
applyUnstructured(objs, d) ==
    IF objs[d.name] = Absent
    THEN [objs |-> [objs EXCEPT ![d.name] = [content |-> d.content, rv |-> 1]],
          err |-> FALSE]
    ELSE Update(objs, d.name, d.content, objs[d.name].rv)

\* applyManifest: the documents of the file in order; the first error ends it.
RECURSIVE applyManifest(_, _)
applyManifest(objs, docs) ==
    IF docs = <<>> THEN [objs |-> objs, err |-> FALSE]
    ELSE LET r == applyUnstructured(objs, Head(docs))
         IN IF r.err THEN r ELSE applyManifest(r.objs, Tail(docs))

\* The content of every object, without its resourceVersion.
ContentOf(objs) == [n \in DOMAIN objs |-> objs[n].content]

ApplyInit ==
    /\ EngineOff
    /\ UnitsOffBut("applied")
    /\ applied \in [phase : {"start"}, objs : [ObjectNames -> Objects],
                     manifest : Manifests, errs : {<<>>}, after : {<<>>}]

\* The manifest is applied once more, with no other writer in between.
ApplyAgain ==
    /\ applied.phase = "start"
    /\ Len(applied.errs) < 2
    /\ LET r == applyManifest(applied.objs, applied.manifest)
       IN applied' = [applied EXCEPT !.objs = r.objs,
                                     !.errs = Append(@, r.err),
                                     !.after = Append(@, ContentOf(r.objs))]
    /\ UNCHANGED <<engineVars, looked, compared, loaded, waits, manager, racing, conditioned, checking, ensuring, shared>>

ApplySpec == ApplyInit /\ [][ApplyAgain]_vars

\* ------------------------------------------------------------- lookupPath
MaxDepth == 3           \* deepest nesting of maps in a document
MaxPathLen == 5         \* longest path, in characters

\* A string is the sequence of its characters.
Chars == {".", "a", "b"}
Paths == SeqsUpTo(Chars, MaxPathLen)

\* The values of a document that are not maps: a string, nil, a list.
Leaves == {[kind |-> "string"], [kind |-> "nil"], [kind |-> "list"]}
Nil == [kind |-> "nil"]

Map(f) == [kind |-> "map", m |-> f]

\* The maps nested up to d deep: key "a", when present, holds a leaf or a
\* map one less deep; key "b", when present, holds a string.
RECURSIVE Maps(_)
Maps(d) ==
    LET inner == IF d <= 1 THEN Leaves ELSE Leaves \cup Maps(d - 1)
        onlyA == {Map([k \in {<<"a">>} |-> v]) : v \in inner}
        both  == {Map([k \in {<<"a">>, <<"b">>} |->
                          IF k = <<"a">> THEN v ELSE [kind |-> "string"]]) : v \in inner}
    IN {Map(<<>>), Map([k \in {<<"b">>} |-> [kind |-> "string"]])} \cup onlyA \cup both

\* strings.TrimPrefix(s, prefix), for a prefix of one character.
TrimPrefix(s, c) == IF s # <<>> /\ Head(s) = c THEN Tail(s) ELSE s

\* strings.Split(s, sep), for a separator of one character: the pieces
\* between the separators, the empty ones included.
RECURSIVE Split(_, _)
Split(s, c) ==
    IF \A k \in DOMAIN s : s[k] # c THEN <<s>>
    ELSE LET k == CHOOSE j \in DOMAIN s : s[j] = c /\ \A l \in 1..(j - 1) : s[l] # c
         IN <<SubSeq(s, 1, k - 1)>> \o Split(SubSeq(s, k + 1, Len(s)), c)

NotFound_Error == [value |-> Nil, found |-> FALSE, err |-> TRUE]

\* return nil, false, nil
NotFound == [value |-> Nil, found |-> FALSE, err |-> FALSE]

Mismatch_NotFound == [value |-> Nil, found |-> FALSE, err |-> FALSE]

\* return nil, false, fmt.Errorf("expected map at %q, got %T", part, current)
Mismatch == [value |-> Nil, found |-> FALSE, err |-> TRUE]

\* The loop of lookupPath over the parts that remain.
RECURSIVE Walk(_, _)
Walk(current, parts) ==
    IF parts = <<>> THEN [value |-> current, found |-> TRUE, err |-> FALSE]
    ELSE IF current.kind # "map" THEN Mismatch
    ELSE IF Head(parts) \notin DOMAIN current.m THEN NotFound
    ELSE Walk(current.m[Head(parts)], Tail(parts))

lookupPath(obj, path) == Walk(obj, Split(TrimPrefix(path, "."), "."))

LookupInit ==
    /\ EngineOff
    /\ UnitsOffBut("looked")
    /\ looked \in [phase : {"start"}, obj : Maps(MaxDepth), path : Paths, out : {NotFound}]

\* lookupPath(obj, path) is called and returns.
Lookup ==
    /\ looked.phase = "start"
    /\ looked' = [looked EXCEPT !.phase = "done", !.out = lookupPath(looked.obj, looked.path)]
    /\ UNCHANGED <<engineVars, applied, compared, loaded, waits, manager, racing, conditioned, checking, ensuring, shared>>

LookupSpec == LookupInit /\ [][Lookup]_vars

\* ------------------------------------------------------------- valuesEqual
\* A number is written as big * 2^53 + h / 2: a small number counted in
\* halves, or a number h / 2 above 2^53 (9007199254740992), where a float64
\* no longer has a bit for the units.
Num(big, h) == [big |-> big, h |-> h]
NoNum == Num(0, 0)

Three == Num(0, 6)
ThreeAndHalf == Num(0, 7)
Four == Num(0, 8)
Big == Num(1, 0)
BigPlus1 == Num(1, 2)
BigPlus2 == Num(1, 4)

\* A Go value: its dynamic type, the number it holds (numeric types) and
\* its text (string, json.Number).
Val(kind, num, text) == [kind |-> kind, num |-> num, text |-> text]

IntKinds == {"int", "int32", "int64"}
FloatKinds == {"float32", "float64"}

\* The json.Number texts, with the number each denotes; "abc" denotes none.
JsonTexts == {"3", "3.0", "3.5", "9007199254740992", "9007199254740993", "abc"}
JsonValue(text) ==
    CASE text \in {"3", "3.0"} -> Three
      [] text = "3.5" -> ThreeAndHalf
      [] text = "9007199254740992" -> Big
      [] text = "9007199254740993" -> BigPlus1
      [] OTHER -> NoNum

Values ==
    {Val(k, n, "") : k \in {"int", "int64"}, n \in {Three, Four, Big, BigPlus1, BigPlus2}}
    \cup {Val("int32", n, "") : n \in {Three, Four}}
    \cup {Val("float64", n, "") : n \in {Three, ThreeAndHalf, Four, Big, BigPlus2}}
    \cup {Val("float32", n, "") : n \in {Three, ThreeAndHalf, Four, Big}}
    \cup {Val("jsonNumber", NoNum, t) : t \in JsonTexts}
    \cup {Val("string", NoNum, t) : t \in {"3", "3.5", "done", "Done", "true", "<nil>"}}
    \cup {Val("bool", NoNum, "true"), Val("nil", NoNum, "")}

\* The float64 nearest to a number (ties to the even significand): exact
\* below 2^53; from 2^53 on only the even integers are float64 values.
Round53(n) ==
    IF n.big = 0 THEN n
    ELSE LET o == n.h \div 2
         IN Num(1, 2 * (IF o % 2 = 0 THEN o
                        ELSE IF (o - 1) % 4 = 0 THEN o - 1 ELSE o + 1))

\* toFloat64: float64(n) of the numeric types, n.Float64() of a json.Number.
toFloat64(v) ==
    CASE v.kind \in FloatKinds -> [f |-> v.num, ok |-> TRUE]
      [] v.kind \in IntKinds -> [f |-> Round53(v.num), ok |-> TRUE]
      [] v.kind = "jsonNumber" ->
            IF v.text = "abc" THEN [f |-> NoNum, ok |-> FALSE]
            ELSE [f |-> Round53(JsonValue(v.text)), ok |-> TRUE]
      [] OTHER -> [f |-> NoNum, ok |-> FALSE]

\* strconv's decimal text of an integer.
IntText(n) ==
    CASE n = Three -> "3"
      [] n = Four -> "4"
      [] n = Big -> "9007199254740992"
      [] n = BigPlus1 -> "9007199254740993"
      [] n = BigPlus2 -> "9007199254740994"

\* fmt's %v text of a float64 or float32: the shortest text that reads
\* back as the value, with an exponent from 1e21 on (float64 of 21 digits
\* or more) or when the shortest text has fewer digits than the number.
FloatText(kind, n) ==
    CASE n = Three -> "3"
      [] n = ThreeAndHalf -> "3.5"
      [] n = Four -> "4"
      [] n = Big -> IF kind = "float32" THEN "9.007199e+15" ELSE "9.007199254740992e+15"
      [] n = BigPlus2 -> "9.007199254740994e+15"

Sprint_Fold(v) ==
    CASE v.kind \in IntKinds -> IntText(v.num)
      [] v.kind \in FloatKinds -> FloatText(v.kind, v.num)
      [] v.kind = "nil" -> "<nil>"
      [] v.text = "Done" -> "done"
      [] OTHER -> v.text

\* fmt.Sprintf("%v", v)
Sprint(v) ==
    CASE v.kind \in IntKinds -> IntText(v.num)
      [] v.kind \in FloatKinds -> FloatText(v.kind, v.num)
      [] v.kind = "nil" -> "<nil>"
      [] OTHER -> v.text

valuesEqual(actual, expected) ==
    LET a == toFloat64(actual)
        e == toFloat64(expected)
    IN IF a.ok /\ e.ok THEN a.f = e.f
       ELSE Sprint(actual) = Sprint(expected)

CompareInit ==
    /\ EngineOff
    /\ UnitsOffBut("compared")
    /\ compared \in [phase : {"start"}, actual : Values, expected : Values, out : {FALSE}]

\* valuesEqual(actual, expected) is called and returns.
Compare ==
    /\ compared.phase = "start"
    /\ compared' = [compared EXCEPT !.phase = "done",
                                     !.out = valuesEqual(compared.actual, compared.expected)]
    /\ UNCHANGED <<engineVars, applied, looked, loaded, waits, manager, racing, conditioned, checking, ensuring, shared>>

CompareSpec == CompareInit /\ [][Compare]_vars

\* ------------------------------------------------------------- loaders
MaxFiles == 2           \* most entries of a scenario directory

\* A file: whether its extension is .yaml or .yml, whether it can be read
\* and unmarshalled, and the name and the agent list it gives the Scenario.
Files == [yaml : BOOLEAN, valid : BOOLEAN, name : {"", "n"}, agents : {<<>>, <<"a">>}]

\* What yaml.Unmarshal makes of a file.
ScenarioOf(f) == [name |-> f.name, agents |-> f.agents]

Loaded(ss) == [err |-> FALSE, scenarios |-> ss]
LoadError == [err |-> TRUE, scenarios |-> <<>>]

\* scenario.Load (loader.go)
Load(f) ==
    IF ~f.valid THEN LoadError
    ELSE IF f.name = "" THEN LoadError
    ELSE IF Len(f.agents) = 0 THEN LoadError
    ELSE Loaded(<<ScenarioOf(f)>>)

\* scenario.Parse, of both packages that define it
Parse(f) ==
    IF ~f.valid THEN LoadError
    ELSE IF f.name = "" THEN LoadError
    ELSE Loaded(<<ScenarioOf(f)>>)

\* scenario.LoadFile: os.ReadFile, then Parse
LoadFile(f) == IF ~f.valid THEN LoadError ELSE Parse(f)

\* scenario.ParseFile: os.ReadFile, then Parse
ParseFile(f) == IF ~f.valid THEN LoadError ELSE Parse(f)

\* The loop of LoadDir over the entries, with the loader it calls per file.
RECURSIVE LoadEach(_, _, _)
LoadEach(entry, dir, acc) ==
    IF dir = <<>> THEN Loaded(acc)
    ELSE IF ~Head(dir).yaml THEN LoadEach(entry, Tail(dir), acc)
    ELSE LET r == IF entry = "LoadDir" THEN Load(Head(dir)) ELSE LoadFile(Head(dir))
         IN IF r.err THEN LoadError
            ELSE LoadEach(entry, Tail(dir), acc \o r.scenarios)

\* scenario.LoadDir (loader.go): Load for each .yaml or .yml file
LoadDir(dir) == LoadEach("LoadDir", dir, <<>>)

\* scenario.LoadDir of the package of LoadFile: LoadFile for each file
LoadDir_LoadFile(dir) == LoadEach("LoadDir_LoadFile", dir, <<>>)

FileEntries == {"Load", "LoadFile", "ParseFile", "Parse"}
DirEntries == {"LoadDir", "LoadDir_LoadFile"}

LoadInit ==
    /\ EngineOff
    /\ UnitsOffBut("loaded")
    /\ \/ loaded \in [phase : {"start"}, entry : FileEntries,
                       files : [1..1 -> Files], out : {LoadError}]
       \/ loaded \in [phase : {"start"}, entry : DirEntries,
                       files : SeqsUpTo(Files, MaxFiles), out : {LoadError}]

\* The entry point is called with its file, or with its directory.
LoadCall ==
    /\ loaded.phase = "start"
    /\ loaded' = [loaded EXCEPT
          !.phase = "done",
          !.out = CASE loaded.entry = "Load" -> Load(loaded.files[1])
                    [] loaded.entry = "LoadFile" -> LoadFile(loaded.files[1])
                    [] loaded.entry = "ParseFile" -> ParseFile(loaded.files[1])
                    [] loaded.entry = "Parse" -> Parse(loaded.files[1])
                    [] loaded.entry = "LoadDir" -> LoadDir(loaded.files)
                    [] loaded.entry = "LoadDir_LoadFile" -> LoadDir_LoadFile(loaded.files)]
    /\ UNCHANGED <<engineVars, applied, looked, compared, waits, manager, racing, conditioned, checking, ensuring, shared>>

LoadSpec == LoadInit /\ [][LoadCall]_vars

\* ------------------------------------------------------------- timeouts
FrameworkTimeout == 60  \* 60 * time.Second, in seconds

\* The Engine implementations of the repository, by package.
Engines == {"engine", "scenario", "framework"}

\* The timeouts a scenario may ask for, in seconds; 0 when unset.
Timeouts == 0..UserTimeout

\* The timeout each Engine's Run hands to context.WithTimeout for the wait.
WaitTimeout(impl, t) ==
    CASE impl = "engine" -> RunTimeout([Timeout |-> t])
      [] impl = "scenario" -> IF t = 0 THEN DefaultTimeout ELSE t
      [] impl = "framework" -> IF t = 0 THEN FrameworkTimeout ELSE t

WaitInit ==
    /\ EngineOff
    /\ UnitsOffBut("waits")
    /\ waits \in [phase : {"start"}, impl : Engines, timeout : Timeouts, used : {0}]

\* Run of the Engine derives the context of its wait.
WaitDerive ==
    /\ waits.phase = "start"
    /\ waits' = [waits EXCEPT !.phase = "done",
                               !.used = WaitTimeout(waits.impl, waits.timeout)]
    /\ UNCHANGED <<engineVars, applied, looked, compared, loaded, manager, racing, conditioned, checking, ensuring, shared>>

WaitSpec == WaitInit /\ [][WaitDerive]_vars

\* ------------------------------------------------------------- PodManager
MaxCalls == 4           \* most calls a test makes on its PodManager

\* The variables of Run that a call on the manager leaves alone.
runVars == <<scn, engine, i, result, ctx, timeout, ticker, lastErr, store, calls,
             everAllHeld, metInTime, doneInPoll, checked, immediate, ticked, failedAt>>

\* The record of a call: its number, the method, the agent name, whether
\* it returned an error, and deployed and the Deployments before the call.
Called(call, name, err) ==
    [phase |-> "on", n |-> manager.n + 1, call |-> call, name |-> name, err |-> err,
     before |-> [deployed |-> deployed, deployments |-> deployments]]

\* The test may make its next call: no call is in progress.
BetweenCalls == manager.phase = "on" /\ manager.n < MaxCalls /\ pc \in {"idle", "done"}

ManagerInit ==
    /\ EngineOff
    /\ UnitsOffBut("manager")
    /\ manager = [phase |-> "on", n |-> 0, call |-> "none", name |-> "", err |-> FALSE,
                  before |-> [deployed |-> {}, deployments |-> {}]]

\* The test calls Deploy(ctx, name).
MgrDeploy ==
    /\ BetweenCalls
    /\ \E name \in AgentNames : \E o \in PodDeploy(name) :
         /\ manager' = Called("Deploy", name, o # "ok")
         /\ IF o = "ok"
            THEN /\ deployed' = deployed \cup {name}
                 /\ deployments' = deployments \cup {name}
            ELSE UNCHANGED <<deployed, deployments>>
    /\ UNCHANGED <<runVars, pc, names, stopErr, applied, looked, compared, loaded, waits, racing, conditioned, checking, ensuring, shared>>

MgrStop_KeepRecord ==
    /\ BetweenCalls
    /\ \E name \in AgentNames : \E o \in PodStop(name) :
         /\ manager' = Called("Stop", name, o # "ok")
         /\ IF o = "ok"
            THEN /\ deployments' = deployments \ {name}
                 /\ UNCHANGED deployed
            ELSE UNCHANGED <<deployed, deployments>>
    /\ UNCHANGED <<runVars, pc, names, stopErr, applied, looked, compared, loaded, waits, racing, conditioned, checking, ensuring, shared>>

\* The test calls Stop(ctx, name).
MgrStop ==
    /\ BetweenCalls
    /\ \E name \in AgentNames : \E o \in PodStop(name) :
         /\ manager' = Called("Stop", name, o # "ok")
         /\ IF o = "ok"
            THEN /\ deployments' = deployments \ {name}
                 /\ deployed' = deployed \ {name}
            ELSE UNCHANGED <<deployed, deployments>>
    /\ UNCHANGED <<runVars, pc, names, stopErr, applied, looked, compared, loaded, waits, racing, conditioned, checking, ensuring, shared>>

\* The test calls StopAll(ctx): the call runs through StopAll_Begin,
\* StopAll_Stop and StopAll_Return, and no other call is made meanwhile.
MgrStopAll ==
    /\ BetweenCalls
    /\ manager' = Called("StopAll", "", FALSE)
    /\ pc' = "stopall"
    /\ UNCHANGED <<runVars, deployed, deployments, names, stopErr,
                   applied, looked, compared, loaded, waits, racing, conditioned, checking, ensuring, shared>>

ManagerNext ==
    \/ MgrDeploy
    \/ MgrStop
    \/ MgrStopAll
    \/ StopAll_Begin
    \/ StopAll_Stop
    \/ StopAll_Return
    \/ Cancel

ManagerSpec == ManagerInit /\ [][ManagerNext]_vars

\* ------------------------------------------------------------- applyUnstructured and an agent
MaxWrites == 2          \* most writes an agent makes while one document is applied

\* The document is applied to a cluster that holds its resource or not; rev
\* is the latest resourceVersion the cluster has handed out.
RaceInit ==
    /\ EngineOff
    /\ UnitsOffBut("racing")
    /\ racing \in [phase : {"create"}, objs : [ObjectNames -> Objects],
                    doc : [name : ObjectNames, content : Contents],
                    rev : {1}, existed : {FALSE}, seen : {0}, err : {FALSE},
                    writes : {0}]

\* resource.Create(ctx, obj): the object is created, or AlreadyExists.
ApplyCreate ==
    /\ racing.phase = "create"
    /\ IF racing.objs[racing.doc.name] = Absent
       THEN racing' = [racing EXCEPT
                !.phase = "done",
                !.rev = @ + 1,
                !.objs[racing.doc.name] = [content |-> racing.doc.content, rv |-> racing.rev + 1]]
       ELSE racing' = [racing EXCEPT !.phase = "get", !.existed = TRUE]
    /\ UNCHANGED <<engineVars, applied, looked, compared, loaded, waits, manager, conditioned, checking, ensuring, shared>>

\* resource.Get(ctx, obj.GetName()): NotFound ends applyUnstructured with
\* "getting existing resource"; else obj takes the resourceVersion it saw.
ApplyGet ==
    /\ racing.phase = "get"
    /\ IF racing.objs[racing.doc.name] = Absent
       THEN racing' = [racing EXCEPT !.phase = "done", !.err = TRUE]
       ELSE racing' = [racing EXCEPT !.phase = "update",
                                     !.seen = racing.objs[racing.doc.name].rv]
    /\ UNCHANGED <<engineVars, applied, looked, compared, loaded, waits, manager, conditioned, checking, ensuring, shared>>

\* resource.Update(ctx, obj), and the error applyUnstructured returns.
ApplyUpdate ==
    /\ racing.phase = "update"
    /\ LET r == Update(racing.objs, racing.doc.name, racing.doc.content, racing.seen)
       IN racing' = [racing EXCEPT !.phase = "done", !.objs = r.objs, !.err = r.err,
                                   !.rev = IF r.err THEN @ ELSE @ + 1]
    /\ UNCHANGED <<engineVars, applied, looked, compared, loaded, waits, manager, conditioned, checking, ensuring, shared>>

\* A running agent deletes the resource, or writes it (creating it when it
\* is absent): the cluster hands out the next resourceVersion.
AgentWrites ==
    /\ racing.phase \in {"create", "get", "update"}
    /\ racing.writes < MaxWrites
    /\ racing.rev + 1 < MaxVersion
    /\ \E n \in ObjectNames :
         \/ /\ racing.objs[n] # Absent
            /\ racing' = [racing EXCEPT !.objs[n] = Absent, !.writes = @ + 1]
         \/ \E c \in Contents :
              racing' = [racing EXCEPT !.objs[n] = [content |-> c, rv |-> racing.rev + 1],
                                       !.rev = @ + 1, !.writes = @ + 1]
    /\ UNCHANGED <<engineVars, applied, looked, compared, loaded, waits, manager, conditioned, checking, ensuring, shared>>

RaceNext ==
    \/ ApplyCreate
    \/ ApplyGet
    \/ ApplyUpdate
    \/ AgentWrites

RaceSpec == RaceInit /\ [][RaceNext]_vars

\* ------------------------------------------------------------- one condition
\* A value of a document as a Go value: the strings of a document read
\* "done", a list and a map print as fmt prints them.
AsValue(v) ==
    CASE v.kind = "string" -> Val("string", NoNum, "done")
      [] v.kind = "nil" -> Val("nil", NoNum, "")
      [] v.kind = "list" -> Val("list", NoNum, "[]")
      [] OTHER -> Val("map", NoNum, "map[]")

\* The values a condition may expect.
Expected == {Val("string", NoNum, "done"), Val("string", NoNum, "<nil>")}

\* The resource references of expectations: what a detail shows of a
\* ResourceRef is its Kind and its Name.
Refs == [kind : {"A", "B"}, name : {"n"}]
NoRef == [kind |-> "", name |-> ""]

Met == [met |-> TRUE, ref |-> NoRef, path |-> <<>>, text |-> ""]

\* fmt.Sprintf("%s/%s path %s: ...", ref.Kind, ref.Name, cond.Path)
Detail(ref, path, text) == [met |-> FALSE, ref |-> ref, path |-> path, text |-> text]

\* One iteration of the loop over exp.Conditions, on the fetched object:
\* lookupPath, then valuesEqual; Met when the loop goes on.
Condition(ref, obj, cond) ==
    LET r == lookupPath(obj, cond.path)
    IN IF r.err \/ ~r.found THEN Detail(ref, cond.path, "not found")
       ELSE IF ~valuesEqual(AsValue(r.value), cond.value)
       THEN Detail(ref, cond.path, "got, want")
       ELSE Met

ConditionInit ==
    /\ EngineOff
    /\ UnitsOffBut("conditioned")
    /\ conditioned \in [phase : {"start"}, ref : {[kind |-> "A", name |-> "n"]}, obj : Maps(MaxDepth),
                         cond : [path : Paths, value : Expected], out : {Met}]

\* The condition is evaluated against the fetched object.
CheckCondition ==
    /\ conditioned.phase = "start"
    /\ conditioned' = [conditioned EXCEPT
           !.phase = "done",
           !.out = Condition(conditioned.ref, conditioned.obj, conditioned.cond)]
    /\ UNCHANGED <<engineVars, applied, looked, compared, loaded, waits, manager, racing, checking, ensuring, shared>>

ConditionSpec == ConditionInit /\ [][CheckCondition]_vars

\* ------------------------------------------------------------- one check
MaxConds == 2           \* most conditions of an expectation
MaxChanges == 1         \* most writes of an agent during one check

\* The paths conditions name, and the conditions: each expects "done".
CondPaths == {<<".", "a">>, <<"b">>}
Conds == [path : CondPaths, value : {Val("string", NoNum, "done")}]

\* The expectation lists, up to the renaming of kinds: "B" comes after "A".
ExpectLists ==
    {l \in SeqsUpTo([ref : Refs, conds : SeqsUpTo(Conds, MaxConds)], MaxExpect) :
        \A k \in DOMAIN l : l[k].ref.kind = "B" => \E j \in 1..(k - 1) : l[j].ref.kind = "A"}

\* A resource of the cluster: gone, or a document with a string or nil
\* under "a" and a string under "b".
Gone == [kind |-> "gone"]
Docs == {Gone} \cup {d \in Maps(1) : \A key \in DOMAIN d.m : d.m[key].kind \in {"string", "nil"}}

CheckInit ==
    /\ EngineOff
    /\ UnitsOffBut("checking")
    /\ checking \in [phase : {"get"}, exps : ExpectLists, docs : [Refs -> Docs],
                     k : {1}, c : {1}, obj : {Gone}, atGet : {Gone}, gets : {0},
                     visited : {<<>>}, held : {<<>>}, out : {Met}, changes : {0}]

\* checkAllExpectations is in its loop, at expectation k.
InCheck == checking.phase # "done" /\ checking.k <= Len(checking.exps)

Exp == checking.exps[checking.k]

Fail_Continue(detail) ==
    checking' = [checking EXCEPT !.phase = "get", !.k = @ + 1, !.out = detail,
                                 !.visited = IF checking.phase = "get"
                                             THEN Append(@, Exp.ref) ELSE @]

\* "if !met { return false, detail }"
Fail(detail) ==
    checking' = [checking EXCEPT !.phase = "done", !.out = detail,
                                 !.visited = IF checking.phase = "get"
                                             THEN Append(@, Exp.ref) ELSE @]

\* checkExpectation up to its Get: the mapper has no mapping for the kind
\* (whatever the kind: the mapper is not modelled), the Get fails, or the
\* object is fetched.
CheckGet ==
    /\ InCheck
    /\ checking.phase = "get"
    /\ \/ Fail(Detail([kind |-> Exp.ref.kind, name |-> ""], <<>>, "no mapping"))
       \/ /\ checking.docs[Exp.ref] = Gone
          /\ Fail(Detail(Exp.ref, <<>>, "getting"))
       \/ /\ checking.docs[Exp.ref] # Gone
          /\ checking' = [checking EXCEPT !.phase = "conds", !.c = 1,
                                          !.obj = checking.docs[Exp.ref],
                                          !.atGet = checking.docs[Exp.ref],
                                          !.gets = 1,
                                          !.visited = Append(@, Exp.ref)]
    /\ UNCHANGED <<engineVars, applied, looked, compared, loaded, waits, manager, racing,
                   conditioned, ensuring, shared>>

Fetched_Again ==
    IF checking.docs[Exp.ref] = Gone THEN checking.obj ELSE checking.docs[Exp.ref]

\* The object the conditions are evaluated against: the one Get returned.
Fetched == checking.obj

\* One condition of the expectation, or the end of its conditions: the
\* expectation is met, and checkAllExpectations goes on to the next.
CheckCond ==
    /\ InCheck
    /\ checking.phase = "conds"
    /\ IF checking.c <= Len(Exp.conds)
       THEN LET o == Condition(Exp.ref, Fetched, Exp.conds[checking.c])
            IN IF o = Met
               THEN checking' = [checking EXCEPT !.c = @ + 1]
               ELSE Fail(o)
       ELSE checking' = [checking EXCEPT
                !.phase = "get", !.k = @ + 1,
                !.held = Append(@, [k |-> checking.k, atGet |-> checking.atGet,
                                    gets |-> checking.gets,
                                    now |-> checking.docs[Exp.ref]])]
    /\ UNCHANGED <<engineVars, applied, looked, compared, loaded, waits, manager, racing,
                   conditioned, ensuring, shared>>

\* "return true, \"\"": every expectation was met.
CheckAllMet ==
    /\ checking.phase = "get"
    /\ checking.k > Len(checking.exps)
    /\ checking' = [checking EXCEPT !.phase = "done", !.out = Met]
    /\ UNCHANGED <<engineVars, applied, looked, compared, loaded, waits, manager, racing,
                   conditioned, ensuring, shared>>

\* A running agent writes or deletes one of the resources during the check.
AgentChanges ==
    /\ checking.phase \in {"get", "conds"}
    /\ checking.changes < MaxChanges
    /\ \E ref \in Refs : \E d \in Docs \ {checking.docs[ref]} :
         checking' = [checking EXCEPT !.docs[ref] = d, !.changes = @ + 1]
    /\ UNCHANGED <<engineVars, applied, looked, compared, loaded, waits, manager, racing,
                   conditioned, ensuring, shared>>

CheckNext ==
    \/ CheckGet
    \/ CheckCond
    \/ CheckAllMet
    \/ AgentChanges

CheckSpec == CheckInit /\ [][CheckNext]_vars

\* ------------------------------------------------------------- concurrent ensureClients
MaxRuns == 2            \* runs that execute concurrently on one Engine
MaxUses == 1            \* most uses of the clients a run makes after ensureClients

Runs == 1..MaxRuns

\* A field of the Engine that holds a client: the client it holds (0: nil),
\* the one it held before the last write, and the run that wrote it (0: set
\* before any run started).
Field(val, prev, by) == [val |-> val, prev |-> prev, by |-> by]

\* Run r reads a field without synchronization: it sees the value the field
\* holds, or, when another run wrote it last, the value from before that write.
Read(f, r) == {f.val} \cup (IF f.by \notin {0, r} THEN {f.prev} ELSE {})

\* An Engine whose clients are nil, or were set by ClientOverride (client 1),
\* and runs that are about to call ensureClients.
EnsureInit ==
    /\ EngineOff
    /\ UnitsOffBut("ensuring")
    /\ \E set \in BOOLEAN :
         ensuring = [phase |-> "on",
                     dynamicClient |-> Field(IF set THEN 1 ELSE 0, 0, 0),
                     mapper |-> Field(IF set THEN 1 ELSE 0, 0, 0),
                     built |-> [dynamicClient |-> 0, mapper |-> 0],
                     runs |-> [r \in Runs |-> [pc |-> "check", dc |-> 0, mapper |-> 0,
                                               uses |-> 0]]]

At(r, at) == ensuring.phase = "on" /\ ensuring.runs[r].pc = at

\* What a step of ensureClients leaves alone.
EnsureFrame ==
    UNCHANGED <<engineVars, applied, looked, compared, loaded, waits, manager, racing,
                conditioned, checking, shared>>

\* if e.dynamicClient != nil && e.mapper != nil { return nil }
EnsureCheck(r) ==
    /\ EnsureFrame
    /\ At(r, "check")
    /\ \E d \in Read(ensuring.dynamicClient, r) : \E m \in Read(ensuring.mapper, r) :
         ensuring' = [ensuring EXCEPT
             !.runs[r].pc = IF d # 0 /\ m # 0 THEN "ready" ELSE "config"]

\* clientcmd.BuildConfigFromFlags
EnsureConfig(r) ==
    /\ EnsureFrame
    /\ At(r, "config")
    /\ \E ok \in BOOLEAN :
         ensuring' = [ensuring EXCEPT !.runs[r].pc = IF ok THEN "dynamic" ELSE "failed"]

\* dynamic.NewForConfig, and e.dynamicClient = dc: a new client is stored.
EnsureDynamic(r) ==
    /\ EnsureFrame
    /\ At(r, "dynamic")
    /\ \/ ensuring' = [ensuring EXCEPT !.runs[r].pc = "failed"]
       \/ LET new == 1 + ensuring.built.dynamicClient + 1
          IN ensuring' = [ensuring EXCEPT
                 !.runs[r].pc = "discovery",
                 !.built.dynamicClient = @ + 1,
                 !.dynamicClient = Field(new, ensuring.dynamicClient.val, r)]

\* The discovery client, GetAPIGroupResources, and e.mapper = ...: a new
\* mapper is stored.
EnsureMapper(r) ==
    /\ EnsureFrame
    /\ At(r, "discovery")
    /\ \/ ensuring' = [ensuring EXCEPT !.runs[r].pc = "failed"]
       \/ LET new == 1 + ensuring.built.mapper + 1
          IN ensuring' = [ensuring EXCEPT
                 !.runs[r].pc = "ready",
                 !.built.mapper = @ + 1,
                 !.mapper = Field(new, ensuring.mapper.val, r)]

\* The run goes on after ensureClients returned nil: a stage reads
\* e.mapper and e.dynamicClient and works with the clients it finds.
RunUses(r) ==
    /\ EnsureFrame
    /\ At(r, "ready")
    /\ ensuring.runs[r].uses < MaxUses
    /\ \E d \in Read(ensuring.dynamicClient, r) : \E m \in Read(ensuring.mapper, r) :
         ensuring' = [ensuring EXCEPT !.runs[r].dc = d, !.runs[r].mapper = m,
                                      !.runs[r].uses = @ + 1]

EnsureNext ==
    \/ \E r \in Runs : EnsureCheck(r)
    \/ \E r \in Runs : EnsureConfig(r)
    \/ \E r \in Runs : EnsureDynamic(r)
    \/ \E r \in Runs : EnsureMapper(r)
    \/ \E r \in Runs : RunUses(r)

EnsureSpec == EnsureInit /\ [][EnsureNext]_vars

\* ------------------------------------------------------------- one manager, concurrent callers
\* What a goroutine runs on the manager: Run with its agent list (Deploy of
\* each agent, the stages up to the end of the poller, the deferred
\* StopAll), a StopAll call, or a Stop call of one agent.
Callers ==
    [kind : {"run"}, pc : {"deploy"},
     todo : {l \in SeqsUpTo(Agents, MaxAgents) : l # <<>> /\ (Len(l) = 2 => l[1] # l[2])},
     mine : {{}}, names : {{}}, ret : {"none"}]
    \cup [kind : {"stopall"}, pc : {"stopall"}, todo : {<<>>}, mine : {{}}, names : {{}},
          ret : {"none"}]
    \cup [kind : {"stop"}, pc : {"stop"}, todo : [1..1 -> Agents], mine : {{}}, names : {{}},
          ret : {"none"}]

SharedInit ==
    /\ EngineOff
    /\ UnitsOffBut("shared")
    /\ shared \in [phase : {"before"}, th : [Runs -> Callers]]

\* What a call on the manager leaves alone.
SharedFrame ==
    UNCHANGED <<runVars, pc, names, stopErr, applied, looked, compared, loaded, waits,
                manager, racing, conditioned, checking, ensuring>>

Caller(r) == shared.th[r]
CallerAt(r, kind, at) ==
    shared.phase = "on" /\ Caller(r).kind = kind /\ Caller(r).pc = at

\* Before the goroutines start, the manager has deployed some of its agents.
DeployedBefore ==
    /\ shared.phase = "before"
    /\ \E d \in SUBSET Agents : deployed' = d /\ deployments' = d
    /\ shared' = [shared EXCEPT !.phase = "on"]
    /\ SharedFrame

\* One iteration of Run's deployment loop (Deploy holds the manager's lock
\* throughout), or its end: the StopAll is deferred and the stages begin.
CallerDeploys(r) ==
    /\ CallerAt(r, "run", "deploy")
    /\ IF Caller(r).todo = <<>>
       THEN /\ shared' = [shared EXCEPT !.th[r].pc = "polling"]
            /\ UNCHANGED <<deployed, deployments>>
       ELSE \E o \in PodDeploy(Head(Caller(r).todo)) :
              IF o = "ok"
              THEN /\ deployed' = deployed \cup {Head(Caller(r).todo)}
                   /\ deployments' = deployments \cup {Head(Caller(r).todo)}
                   /\ shared' = [shared EXCEPT !.th[r].todo = Tail(@),
                                               !.th[r].mine = @ \cup {Head(Caller(r).todo)}]
              ELSE /\ shared' = [shared EXCEPT !.th[r].pc = "returned", !.th[r].ret = "err"]
                   /\ UNCHANGED <<deployed, deployments>>
    /\ SharedFrame

\* The stages of the run are over, with whatever result: the deferred
\* StopAll is called.
CallerEndsRun(r) ==
    /\ CallerAt(r, "run", "polling")
    /\ shared' = [shared EXCEPT !.th[r].pc = "stopall"]
    /\ UNCHANGED <<deployed, deployments>>
    /\ SharedFrame

\* StopAll copies the names under the lock.
CallerStopAllBegins(r) ==
    /\ \/ CallerAt(r, "run", "stopall")
       \/ CallerAt(r, "stopall", "stopall")
    /\ shared' = [shared EXCEPT !.th[r].pc = "stopping", !.th[r].names = deployed]
    /\ UNCHANGED <<deployed, deployments>>
    /\ SharedFrame

\* One iteration of StopAll's loop (Stop holds the lock throughout), or its
\* end: the first error ends the StopAll.
CallerStopAllStops(r) ==
    /\ \/ CallerAt(r, "run", "stopping")
       \/ CallerAt(r, "stopall", "stopping")
    /\ IF Caller(r).names = {}
       THEN /\ shared' = [shared EXCEPT !.th[r].pc = "returned", !.th[r].ret = "nil"]
            /\ UNCHANGED <<deployed, deployments>>
       ELSE \E n \in Caller(r).names : \E o \in PodStop(n) :
              IF o = "ok"
              THEN /\ deployments' = deployments \ {n}
                   /\ deployed' = deployed \ {n}
                   /\ shared' = [shared EXCEPT !.th[r].names = @ \ {n}]
              ELSE /\ shared' = [shared EXCEPT !.th[r].pc = "returned", !.th[r].ret = "err"]
                   /\ UNCHANGED <<deployed, deployments>>
    /\ SharedFrame

\* A Stop call of one agent.
CallerStops(r) ==
    /\ CallerAt(r, "stop", "stop")
    /\ \E o \in PodStop(Caller(r).todo[1]) :
         IF o = "ok"
         THEN /\ deployments' = deployments \ {Caller(r).todo[1]}
              /\ deployed' = deployed \ {Caller(r).todo[1]}
              /\ shared' = [shared EXCEPT !.th[r].pc = "returned", !.th[r].ret = "nil"]
         ELSE /\ shared' = [shared EXCEPT !.th[r].pc = "returned", !.th[r].ret = "err"]
              /\ UNCHANGED <<deployed, deployments>>
    /\ SharedFrame

SharedNext ==
    \/ DeployedBefore
    \/ \E r \in Runs : CallerDeploys(r)
    \/ \E r \in Runs : CallerEndsRun(r)
    \/ \E r \in Runs : CallerStopAllBegins(r)
    \/ \E r \in Runs : CallerStopAllStops(r)
    \/ \E r \in Runs : CallerStops(r)

SharedSpec == SharedInit /\ [][SharedNext]_vars

\* ------------------------------------------------------------- claims
Range(f) == {f[k] : k \in DOMAIN f}

\* The agents whose Deploy call succeeded in this run.
DeployedInRun == {c.name : c \in {d \in Range(calls.deploy) : d.ok}}

\* Run has returned its Result.
Returned == pc = "done"

StageErrors == {"deploying agent", "applying setup", "applying trigger",
                "timed out waiting for expectations"}
EarlyErrors == {"deploying agent", "applying setup", "applying trigger"}

\* C1: when Run returns a Result that failed in the deployment, setup,
\* trigger or convergence stage, no agent whose Deploy succeeded in this run
\* still has its Deployment: each has been stopped.
C1_CleanupOnFailure ==
    (Returned /\ result.Error.msg \in StageErrors) =>
        DeployedInRun \cap deployments = {}

\* C2: in the Result Run returns, Passed is true exactly when Error is nil
\* and Diagnostics is nil.
C2_PassedIffNoErrorNoDiagnostics ==
    Returned =>
        (result.Passed <=> (result.Error = NilError /\ result.Diagnostics = NilReport))

\* A run that failed in the convergence stage on an Engine without a
\* Collector: not passed, an error, and no diagnostics.
C2_Witness ==
    /\ Returned
    /\ ~result.Passed
    /\ result.Error.msg = "timed out waiting for expectations"
    /\ result.Diagnostics = NilReport

\* C3: a run whose context was done while it was in the poller (at the
\* immediate first check, or at a select) does not return Passed = true: it
\* returns a failed Result whose error is the timeout error.
C3_NoPassOnceDone ==
    (Returned /\ doneInPoll) =>
        /\ ~result.Passed
        /\ result.Error.msg = "timed out waiting for expectations"
        /\ result.Error.ctxErr

\* C4: of a run whose setup, deployment and trigger succeeded: if the store
\* came to hold every expected value before the deadline and has held them
\* since, Run returns Passed = true; if the expected values never all held,
\* Run returns Passed = false with the timeout error and (the Engine having
\* a Collector) a Diagnostics Report that names the last unmet condition.
C4_EndToEnd ==
    (/\ Returned
     /\ engine.Collector
     /\ result.Error.msg \notin EarlyErrors \cup {"initializing clients"}) =>
        /\ metInTime => result.Passed
        /\ ~everAllHeld =>
              /\ ~result.Passed
              /\ result.Error.msg = "timed out waiting for expectations"
              /\ ~result.Diagnostics.nil
              /\ result.Error.detail \in Range(result.Diagnostics.ResourceDiffs)

\* C5: Run returns Passed = true only if at some instant of the convergence
\* wait every expectation held in the store at once.
C5_PassedOnlyIfAllHeldAtOnce ==
    (Returned /\ result.Passed) => everAllHeld

\* C6: when the context was done while Run was in the poller, the agents
\* deployed in this run have been torn down (their Deployments deleted) when
\* Run returns.
C6_TeardownOnCancel ==
    (Returned /\ doneInPoll) => DeployedInRun \cap deployments = {}

\* C7: the timeout does not run before the convergence wait: its deadline
\* never passes while Run is in client initialisation, deployment, setup or
\* trigger, and when polling starts none of it has been used up.
C7_TimeoutOnlyBoundsWait ==
    /\ pc \in {"ensure", "deploy", "setup", "trigger"} => ctx # "deadline"
    /\ pc = "poll" => ctx \notin {"running", "deadline"}

\* C8: the stages run in the order setup, deployment, trigger, convergence
\* wait: when a Deploy call has been made every manifest has been applied,
\* when the trigger patch has been sent every agent has been deployed, and
\* when a resource has been fetched the trigger patch (if any) has been sent.
C8_StageOrder ==
    /\ calls.deploy # <<>> => Len(calls.apply) = scn.Manifests
    /\ calls.patch > 0 => /\ Len(calls.deploy) = Len(scn.Agents)
                          /\ Len(calls.apply) = scn.Manifests
    /\ calls.fetch => (scn.Trigger = "patch" => calls.patch > 0)

C10_DeployInOrderHaltOnFailure ==
    /\ Len(calls.deploy) <= Len(scn.Agents)
    /\ \A k \in DOMAIN calls.deploy :
         /\ calls.deploy[k].name = scn.Agents[k]
         /\ ~calls.deploy[k].ok =>
               /\ k = Len(calls.deploy)
               /\ Returned
               /\ ~result.Passed
               /\ result.Error.msg = "deploying agent"

\* The first agent's Deploy failed and the second agent was never deployed.
C10_Witness ==
    /\ Returned
    /\ Len(scn.Agents) = 2
    /\ Len(calls.deploy) = 1
    /\ ~calls.deploy[1].ok

TimeoutError == "timed out waiting for expectations"

\* Run is past the poller: in diagnostics, in cleanup, or returned.
PastPoller == pc \in {"diag", "stopall", "stopping", "done"}

\* Run got as far as the poller: no earlier stage failed.
ReachedPoller == result.Error.msg \notin EarlyErrors \cup {"initializing clients"}

\* C11: a timeout error of waitForExpectations carries the detail of the
\* most recent expectation check that was made: not the detail of an older
\* check, and not an empty detail.
C11_TimeoutCarriesLastDetail ==
    result.Error.msg = TimeoutError =>
        /\ result.Error.detail = checked
        /\ result.Error.detail # NoDetail

\* A timeout after two unmet checks of different detail: a tick was consumed
\* and the second check failed on another ground than a failed fetch of
\* the first expectation.
C11_Witness ==
    /\ Returned
    /\ result.Error.msg = TimeoutError
    /\ ticked
    /\ result.Error.detail = [exp |-> 2, why |-> "cond"]

\* C12: when every expectation holds as polling begins (and the store and
\* the context are left alone during the first check), waitForExpectations
\* returns nil from its first check: it never reaches the select, consumes
\* no tick, and Run goes on with Passed = true.
C12_ImmediateCheck ==
    immediate =>
        /\ ~ticked
        /\ pc \notin {"wait", "diag"}
        /\ PastPoller => result.Passed

\* A run with expectations that were met from the start has passed.
C12_Witness ==
    /\ Returned
    /\ immediate
    /\ scn.Expect = MaxExpect
    /\ result.Passed
    /\ ticker = "off"

\* C13: once the context is done, waitForExpectations does not start
\* another check from its select: it takes the ctx.Done() case.
C13_NoCheckOnceDone ==
    [][(pc = "wait" /\ CtxDone) => pc' # "check"]_vars

\* C14: a failed fetch does not end polling: the poller ends only with
\* success or because the context is done, so a run that left the poller
\* while the context was not done has passed.
C14_FetchFailureNotFatal ==
    (PastPoller /\ ReachedPoller /\ ~doneInPoll) => result.Passed

\* A run whose first check failed on the fetch of a resource that did not
\* exist yet, and which passed on a later tick, the context never done.
C14_Witness ==
    /\ Returned
    /\ checked.why = "get"
    /\ ticked
    /\ ~doneInPoll
    /\ ctx = "running"
    /\ result.Passed

\* C15: every call of Run returns, and returns one Result: once Run has
\* started it reaches its return, and the Result it returned is not changed
\* afterwards.
C15_RunTerminates ==
    /\ (pc # "idle") ~> Returned
    /\ [][Returned => (pc' = pc /\ result' = result)]_vars

\* A run whose polling loop was ended by the deadline after a tick's check.
C15_Witness ==
    /\ Returned
    /\ ticked
    /\ ctx = "deadline"
    /\ result.Error.msg = TimeoutError
    /\ deployments = {}

\* C16: collecting diagnostics does not change the outcome of the run and
\* raises nothing: after the collection, whatever failed in it, Result.Error
\* is still the convergence error, Passed is false, and the report in the
\* Result records the failure (an error of the collector or of the event
\* listing in CollectionError, a failed log fetch under the agent's name).
C16_DiagnosticsNeverMasks ==
    calls.collect > 0 =>
        /\ result.Error.msg = TimeoutError
        /\ result.Error.detail = checked
        /\ ~result.Passed
        /\ ~result.Diagnostics.nil
        /\ calls.failed.client => result.Diagnostics.CollectionError # ""
        /\ calls.failed.events => result.Diagnostics.CollectionError # ""
        /\ \A n \in calls.failed.logs :
              result.Diagnostics.AgentLogs[n] = "error collecting logs"

\* The collector itself returned an error, and Run returned.
C16_Witness ==
    /\ Returned
    /\ calls.collect > 0
    /\ calls.failed.client
    /\ result.Diagnostics.CollectionError = "collect"

\* C17: a Result that failed in the convergence stage has a non-nil
\* Diagnostics Report.
C17_ConvergenceFailureHasReport ==
    (Returned /\ result.Error.msg = TimeoutError) => ~result.Diagnostics.nil

Stages == {"setup", "deployment", "trigger", "assertion"}

\* The stage an error of Run names: the text Run wraps the stage's error in
\* (the poller's error is stored as it is, and names the wait by its own
\* text); any other text is no stage name.
StageTag(msg) ==
    CASE msg = "applying setup" -> "setup"
      [] msg = "deploying agent" -> "deployment"
      [] msg = "applying trigger" -> "trigger"
      [] msg = TimeoutError -> "assertion"
      [] OTHER -> msg

\* The stage Run is in at position p.
StageAt(p) ==
    CASE p = "setup" -> "setup"
      [] p = "deploy" -> "deployment"
      [] p = "trigger" -> "trigger"
      [] p \in PollPcs -> "assertion"
      [] OTHER -> "none"

\* C18: the error of every failed Result names the stage in which the run
\* failed, and the stage is one of setup, deployment, trigger, assertion
\* (so runs that failed in different stages carry different tags).
C18_StageTagged ==
    (Returned /\ ~result.Passed) =>
        /\ StageTag(result.Error.msg) \in Stages
        /\ StageTag(result.Error.msg) = StageAt(failedAt)

\* C19: when Collect returns a report, the report has an AgentLogs entry
\* for every agent name of the scope, the placeholder for each agent whose
\* log fetch failed; and a failed event listing sets CollectionError and
\* leaves Events empty, the agent entries kept.
C19_CollectKeepsGoing ==
    (calls.collect > 0 /\ ~calls.failed.client) =>
        /\ DOMAIN result.Diagnostics.AgentLogs = Range(scn.Agents)
        /\ \A n \in Range(scn.Agents) :
              result.Diagnostics.AgentLogs[n] =
                 (IF n \in calls.failed.logs THEN "error collecting logs" ELSE "logs")
        /\ calls.failed.events =>
              /\ result.Diagnostics.CollectionError = "listing events"
              /\ ~result.Diagnostics.Events
        /\ ~calls.failed.events =>
              /\ result.Diagnostics.CollectionError = ""
              /\ result.Diagnostics.Events

\* The log fetch of one of two agents failed and so did the event listing.
C19_Witness ==
    /\ Returned
    /\ calls.collect > 0
    /\ Cardinality(Range(scn.Agents)) = 2
    /\ Cardinality(calls.failed.logs) = 1
    /\ calls.failed.events

\* C20: after a convergence failure, the report Collect produced lists in
\* ResourceDiffs the last mismatch the poller captured.
C20_ReportHasLastMismatch ==
    (/\ calls.collect > 0
     /\ ~calls.failed.client
     /\ result.Error.msg = TimeoutError) =>
        checked \in Range(result.Diagnostics.ResourceDiffs)

\* C21: a setup manifest applied twice, with no other writer in between,
\* succeeds both times and leaves every object with the content that one
\* application left.
C21_ApplyIdempotent ==
    (applied.phase = "start" /\ Len(applied.errs) = 2) =>
        /\ applied.errs = <<FALSE, FALSE>>
        /\ applied.after[2] = applied.after[1]

\* A manifest of two documents for one resource, with different contents,
\* applied twice over an object that existed with yet another content.
C21_Witness ==
    /\ applied.phase = "start"
    /\ Len(applied.errs) = 2
    /\ Len(applied.manifest) = 2
    /\ applied.manifest[1].name = applied.manifest[2].name
    /\ applied.manifest[1].content # applied.manifest[2].content
    /\ applied.objs[applied.manifest[1].name].rv > 3

\* C22: for a scenario without a trigger patch (Trigger absent, or present
\* without a patch) the trigger stage makes no call and cannot fail: Run
\* goes from the stage to the poller with the store and the record of its
\* calls as they were, and never patches or reports a trigger error.
C22_NoTriggerNoCall ==
    /\ [](scn.Trigger # "patch" =>
            /\ calls.patch = 0
            /\ result.Error.msg # "applying trigger")
    /\ [][(pc = "trigger" /\ scn.Trigger # "patch") =>
            /\ store' = store
            /\ calls' = calls
            /\ result' = result
            /\ pc' \in {"trigger", "poll"}]_vars

\* A scenario with a Trigger that has no patch, past its trigger stage with
\* a store that setup filled.
C22_Witness ==
    /\ scn.Trigger = "empty"
    /\ pc = "check"
    /\ calls.patch = 0
    /\ calls.apply # <<>>
    /\ \E k \in DOMAIN store : store[k] # "missing"

\* The segments a path names: the pieces between its dots, after one
\* leading dot is dropped.
Segments(path) == Split(TrimPrefix(path, "."), ".")

\* The value of the document under the keys segs, or no value when a key is
\* absent or a value on the way is not a map.
RECURSIVE ValueAt(_, _)
ValueAt(v, segs) ==
    IF segs = <<>> THEN v
    ELSE IF v.kind = "map" /\ Head(segs) \in DOMAIN v.m
         THEN ValueAt(v.m[Head(segs)], Tail(segs))
         ELSE [kind |-> "none"]

\* The traversal arrives, after k segments, at a map without the next key.
MissingKeyAt(obj, segs, k) ==
    LET v == ValueAt(obj, SubSeq(segs, 1, k))
    IN v.kind = "map" /\ segs[k + 1] \notin DOMAIN v.m

\* The traversal arrives, after k segments, at a value that is not a map
\* while segments remain.
NonMapAt(obj, segs, k) ==
    ValueAt(obj, SubSeq(segs, 1, k)).kind \in {"string", "nil", "list"}

\* C23: when the traversal of a path reaches a map that lacks the next
\* segment's key, at whatever depth, lookupPath returns found = false and a
\* nil error.
C23_AbsentKeyNotFound ==
    looked.phase = "done" =>
        \A k \in 0..(Len(Segments(looked.path)) - 1) :
            MissingKeyAt(looked.obj, Segments(looked.path), k) =>
                (~looked.out.found /\ ~looked.out.err)

\* A key missing from a map two levels down.
C23_Witness ==
    /\ looked.phase = "done"
    /\ Len(Segments(looked.path)) = 3
    /\ MissingKeyAt(looked.obj, Segments(looked.path), 2)
    /\ ~looked.out.found

\* C24: when the traversal of a path reaches a value that is not a map
\* while segments remain, lookupPath returns a non-nil error: an outcome
\* other than that of an absent key.
C24_NonMapIsError ==
    looked.phase = "done" =>
        \A k \in 0..(Len(Segments(looked.path)) - 1) :
            NonMapAt(looked.obj, Segments(looked.path), k) =>
                (looked.out.err /\ looked.out # NotFound)

\* A string two levels down, with a segment still to follow.
C24_Witness ==
    /\ looked.phase = "done"
    /\ Len(Segments(looked.path)) = 3
    /\ NonMapAt(looked.obj, Segments(looked.path), 2)
    /\ looked.out.err

\* The value holds a number: it is of a numeric type, and a json.Number is
\* the text of a number.
IsNumber(v) ==
    /\ v.kind \in IntKinds \cup FloatKinds \cup {"jsonNumber"}
    /\ v.kind = "jsonNumber" => v.text # "abc"

\* The number a numeric value denotes.
Denotes(v) == IF v.kind = "jsonNumber" THEN JsonValue(v.text) ELSE v.num

\* C25: for two numeric values, of whatever types and on whichever side,
\* valuesEqual is true exactly when they denote the same number.
C25_NumericEquality ==
    (/\ compared.phase = "done"
     /\ IsNumber(compared.actual)
     /\ IsNumber(compared.expected)) =>
        (compared.out <=> Denotes(compared.actual) = Denotes(compared.expected))

\* C26: when a side is not numeric, valuesEqual is true exactly when the
\* two values print the same: "done" and "Done" are unequal, and the number
\* 3 equals the string "3".
C26_TextEquality ==
    (/\ compared.phase = "done"
     /\ ~IsNumber(compared.actual) \/ ~IsNumber(compared.expected)) =>
        /\ compared.out <=> Sprint(compared.actual) = Sprint(compared.expected)
        /\ ({compared.actual, compared.expected} =
               {Val("string", NoNum, "done"), Val("string", NoNum, "Done")}) => ~compared.out
        /\ ({compared.actual.kind, compared.expected.kind} = {"string", "float64"}
            /\ {compared.actual.text, compared.expected.text} = {"3", ""}
            /\ {compared.actual.num, compared.expected.num} = {Three, NoNum}) => compared.out

\* The float64 3 was compared with the string "3" and found equal.
C26_Witness ==
    /\ compared.phase = "done"
    /\ compared.actual = Val("float64", Three, "")
    /\ compared.expected = Val("string", NoNum, "3")
    /\ compared.out

\* C27: no loader entry point returns a scenario with an empty name or an
\* empty agent list: for such a file each returns an error.
C27_LoadersReject ==
    (loaded.phase = "done" /\ ~loaded.out.err) =>
        \A k \in DOMAIN loaded.out.scenarios :
            /\ loaded.out.scenarios[k].name # ""
            /\ loaded.out.scenarios[k].agents # <<>>

\* C28: every Engine waits for convergence with a timeout of 2 minutes
\* when the scenario's timeout is unset or zero, and with the scenario's
\* timeout otherwise.
C28_DefaultTimeout ==
    waits.phase = "done" =>
        waits.used = (IF waits.timeout = 0 THEN 2 * 60 ELSE waits.timeout)

\* C29: Deploy of an agent name without a configuration, and Stop of an
\* agent that is not recorded as deployed, return an error and leave the
\* deployed set and the Deployments as they were.
C29_RejectedCallsChangeNothing ==
    (\/ manager.call = "Deploy" /\ manager.name \notin Agents
     \/ manager.call = "Stop" /\ manager.name \notin manager.before.deployed) =>
        /\ manager.err
        /\ deployed = manager.before.deployed
        /\ deployments = manager.before.deployments

\* Stop of an agent that has a configuration but is not deployed, while
\* another agent is.
C29_Witness ==
    /\ manager.call = "Stop"
    /\ manager.name = "b"
    /\ manager.before.deployed = {"a"}
    /\ manager.err
    /\ ctx = "none"

\* C30: through any sequence of Deploy, Stop and StopAll calls an agent is
\* recorded as deployed exactly when its Deployment exists; and after a
\* StopAll that returned nil no agent is recorded and no Deployment is left.
C30_RecordMatchesCluster ==
    /\ deployed = deployments
    /\ (manager.call = "StopAll" /\ pc = "done" /\ stopErr = "nil") =>
          (deployed = {} /\ deployments = {})

\* A StopAll that found two agents deployed has returned nil.
C30_Witness ==
    /\ manager.call = "StopAll"
    /\ manager.before.deployed = {"a", "b"}
    /\ pc = "done"
    /\ stopErr = "nil"
    /\ deployments = {}

\* C31: applyUnstructured on a resource that already exists (its Create
\* failed with AlreadyExists) returns success with the resource updated to
\* the document, whatever an agent writes or deletes between the calls.
C31_ApplyExistingSucceeds ==
    (racing.phase = "done" /\ racing.existed) => ~racing.err

\* C32: when the path of a condition reaches a value that is not a map, the
\* detail of the unmet condition differs from the detail the same condition
\* gets on a document where the key is absent.
C32_MismatchDistinguished ==
    (conditioned.phase = "done"
       /\ lookupPath(conditioned.obj, conditioned.cond.path).err) =>
        conditioned.out # Condition(conditioned.ref, Map(<<>>), conditioned.cond)

\* The expectation at which the check ended, and its conditions.
FailedExp == checking.exps[checking.k]

C39_MetInOneSnapshot ==
    \A j \in DOMAIN checking.held :
        LET h == checking.held[j]
            e == checking.exps[h.k]
        IN /\ h.gets = 1
           /\ \A n \in DOMAIN e.conds : Condition(e.ref, h.atGet, e.conds[n]) = Met

\* An expectation with two conditions was reported met when an agent had
\* changed its resource since the Get.
C39_Witness ==
    /\ checking.held # <<>>
    /\ Len(checking.exps[1].conds) = 2
    /\ checking.exps[1].conds[1] # checking.exps[1].conds[2]
    /\ checking.held[1].now # checking.held[1].atGet

\* C34: with runs executing concurrently on one Engine, the dynamic client
\* and the REST mapper are constructed at most once, and the client a run
\* has worked with is still the Engine's client (no run has overwritten it).
C34_ClientsBuiltOnce ==
    /\ ensuring.built.dynamicClient <= 1
    /\ ensuring.built.mapper <= 1
    /\ \A r \in Runs :
         ensuring.runs[r].uses > 0 =>
            /\ ensuring.runs[r].dc # 0 => ensuring.dynamicClient.val = ensuring.runs[r].dc
            /\ ensuring.runs[r].mapper # 0 => ensuring.mapper.val = ensuring.runs[r].mapper

\* C35: when two runs execute concurrently with one agent manager, the
\* agents a run deployed keep their Deployments while that run is still
\* polling: the cleanup of the other run does not stop them.
C35_CleanupStopsOwnAgents ==
    (shared.phase = "on" /\ \A r \in Runs : Caller(r).kind = "run") =>
        \A r \in Runs :
            Caller(r).pc = "polling" => Caller(r).mine \subseteq deployments

\* C36: when StopAll calls, or a StopAll and a Stop, run concurrently on one
\* manager, each StopAll returns nil, and once every call has returned no
\* agent is recorded as deployed.
C36_ConcurrentStopAll ==
    (/\ shared.phase = "on"
     /\ \A r \in Runs : Caller(r).kind \in {"stopall", "stop"}
     /\ \E r \in Runs : Caller(r).kind = "stopall") =>
        /\ \A r \in Runs :
              (Caller(r).kind = "stopall" /\ Caller(r).pc = "returned") =>
                  Caller(r).ret = "nil"
        /\ (\A r \in Runs : Caller(r).pc = "returned") => deployed = {}

\* C37: in a run that fails in the convergence stage, the diagnostics are
\* collected before the deferred StopAll begins: while they are collected
\* every agent the run deployed still has its Deployment, and when the
\* cleanup has begun the collection has been made.
C37_DiagnosticsBeforeCleanup ==
    /\ pc = "diag" =>
          /\ result.Error.msg = TimeoutError
          /\ calls.collect = 0
          /\ DeployedInRun \subseteq deployments
          /\ DeployedInRun \subseteq deployed
    /\ (/\ result.Error.msg = TimeoutError
        /\ pc \in {"stopall", "stopping", "done"}
        /\ engine.Collector) =>
          /\ calls.collect = 1
          /\ ~result.Diagnostics.nil

\* The cleanup of a run that timed out has stopped one of its two agents,
\* and the report collected before holds the logs of both.
C37_Witness ==
    /\ pc = "stopping"
    /\ result.Error.msg = TimeoutError
    /\ calls.collect = 1
    /\ DeployedInRun = {"a", "b"}
    /\ deployments = {"a"}
    /\ DOMAIN result.Diagnostics.AgentLogs = {"a", "b"}
    /\ \A n \in {"a", "b"} : result.Diagnostics.AgentLogs[n] = "logs"

\* C38: with an empty expectation list the first check of the poller
\* succeeds without fetching any resource: the poller never waits, and a
\* run whose deployment, setup and trigger succeeded returns Passed.
C38_EmptyExpectationsPass ==
    scn.Expect = 0 =>
        /\ pc \notin {"wait", "diag"}
        /\ ~calls.fetch
        /\ ~ticked
        /\ (Returned /\ ReachedPoller) =>
              /\ result.Passed
              /\ result.Error = NilError

\* A run with a setup manifest, a trigger patch and no expectation has
\* returned Passed.
C38_Witness ==
    /\ Returned
    /\ scn.Expect = 0
    /\ scn.Manifests = 1
    /\ scn.Trigger = "patch"
    /\ calls.patch = 1
    /\ result.Passed

====
